---- MODULE Spec2Model ----
(***************************************************************************)
(* Session presence and admission control of the MFAI study platform:      *)
(* the presence table (store), the PresenceTracker operations of           *)
(* src/presence_tracker.py, the browser heartbeat and the login admission  *)
(* block of src/main.py.                                                   *)
(*                                                                         *)
(* Time is in whole seconds.  Timestamps are written with isoformat() and  *)
(* compared by the store as instants, so a timestamp is modelled by the    *)
(* instant it denotes.  The write-only column updated_at is left out.      *)
(***************************************************************************)
EXTENDS Integers, FiniteSets, Sequences

\* ------------------------------------------------------------------ bounds
NumSessions == 2
MaxTicks == 1
MaxHours == 1
NumLogins == 3
MaxInFlight == 2
NumClients == 1
MaxIds == 3
MaxSeconds == 81
MaxRenders == 2

\* ------------------------------------------------------- program constants
max_concurrent == 2
online_window_seconds == 60
SecondsPerHour == 3600
beat_interval_seconds == 20

Sessions == 1..NumSessions
NoSession == 0
NoTime == -1
\* clock advances that put a row exactly on, and just past, the two cutoffs
TickSteps == {online_window_seconds, online_window_seconds + 1,
              MaxHours * SecondsPerHour + 1}
HoursArgs == 0..MaxHours
Logins == 1..NumLogins
\* page names the client reports; mark_session_started writes "login"
BeaconPages == {"home", "learning"}
InterviewPages == {"learning", "study", "interview"}
UserOf(s) == "participant"
LanguageOf(s) == "en"

VARIABLES
    now,                \* wall clock (UTC), seconds
    ticks,              \* number of clock advances taken
    store,              \* rows of the presence table
    last,               \* the latest tracker call and what it returned
    started,            \* session ids on which mark_session_started returned True
    pc,                 \* position of each session in the login admission block
    session_registered, \* st.session_state["session_registered"] per session
    raced,              \* sessions admitted while another admitted one was unregistered
    cap,                \* the latest CapacityManager call and what it did
    halted,             \* a check_and_wait caller is stopped, waiting for a retry
    inflight,           \* heartbeat POSTs sent by browsers, not yet at the store
    tab,                \* one browser tab: its heartbeat timers and their missed writes
    module_sm,          \* session_manager.session_manager: session id of the module singleton
    ids_made,           \* number of SessionManager objects constructed so far
    ss,                 \* st.session_state of each client
    hist,               \* per client: session id of this login, id of the login before the last logout, admissions evaluated, last evaluation denied
    run                 \* the latest run of main.py and what it did

vars == <<now, ticks, store, last, started, pc, session_registered, raced,
          cap, halted, inflight, tab, module_sm, ids_made, ss, hist, run>>

\* state held by Streamlit sessions and the server process
sessionVars == <<module_sm, ids_made, ss, hist, run>>

\* state held by browsers, Streamlit sessions and the server process
clientVars == <<inflight, tab, sessionVars>>

\* ------------------------------------------------------------------ store
\* column defaults of a row inserted without these columns
DefaultRow ==
    [session_id |-> NoSession, user_id |-> "", language_code |-> "",
     current_page |-> "", last_seen |-> NoTime, started_at |-> NoTime,
     completed_at |-> NoTime, is_in_interview |-> FALSE, status |-> "active"]

Merge(row, payload) ==
    [f \in DOMAIN row |-> IF f \in DOMAIN payload THEN payload[f] ELSE row[f]]

RowsOf(st, sid) == {r \in st : r.session_id = sid}

\* a second row for a key that is already present
InsertRow(st, payload) == st \cup {Merge(DefaultRow, payload)}

\* upsert on conflict session_id / Prefer: resolution=merge-duplicates
Upsert(st, payload) ==
    IF RowsOf(st, payload.session_id) = {}
    THEN st \cup {Merge(DefaultRow, payload)}
    ELSE {IF r.session_id = payload.session_id THEN Merge(r, payload) ELSE r : r \in st}

\* update(...).<filters>: the rows matching the filter take the payload
UpdateWhere(st, matching, payload) ==
    {IF r \in matching THEN Merge(r, payload) ELSE r : r \in st}

\* --------------------------------------------------------- PresenceTracker
isInInterview(page) == page \in InterviewPages

BeatPayload(sid, page, t) ==
    [session_id |-> sid, user_id |-> UserOf(sid), language_code |-> LanguageOf(sid),
     current_page |-> page, last_seen |-> t, is_in_interview |-> isInInterview(page)]

\* a variant that leaves is_in_interview out of the registration payload
StartedPayload_nophase(sid, t) ==
    [session_id |-> sid, user_id |-> UserOf(sid), language_code |-> LanguageOf(sid),
     current_page |-> "login", last_seen |-> t, started_at |-> t, status |-> "active"]

StartedPayload(sid, t) ==
    [session_id |-> sid, user_id |-> UserOf(sid), language_code |-> LanguageOf(sid),
     current_page |-> "login", last_seen |-> t, started_at |-> t,
     is_in_interview |-> FALSE, status |-> "active"]

\* a variant that reports success although the upsert raised
mark_session_started_failtrue(st, sid, t, fail) ==
    IF fail THEN [ret |-> TRUE, store |-> st]
    ELSE [ret |-> TRUE, store |-> Upsert(st, StartedPayload(sid, t))]

\* each operation: fail = the store call raises; result = returned value and new store
mark_session_started(st, sid, t, fail) ==
    IF fail THEN [ret |-> FALSE, store |-> st]
    ELSE [ret |-> TRUE, store |-> Upsert(st, StartedPayload(sid, t))]

mark_session_completed(st, sid, t, fail) ==
    IF fail THEN [ret |-> FALSE, store |-> st]
    ELSE [ret |-> TRUE,
          store |-> UpdateWhere(st, RowsOf(st, sid),
                                [status |-> "completed", completed_at |-> t])]

\* variants of the window filter: strict comparison, no window at all
ActiveSessionRows_gt(st, t) ==
    {r \in st : r.status = "active" /\ r.last_seen > t - online_window_seconds}

ActiveSessionRows_nowindow(st, t) ==
    {r \in st : r.status = "active"}

ActiveSessionRows(st, t) ==
    {r \in st : r.status = "active" /\ r.last_seen >= t - online_window_seconds}

ActiveInterviewRows(st, t) ==
    {r \in st : r.status = "active" /\ r.is_in_interview = TRUE
                /\ r.last_seen >= t - online_window_seconds}

\* the whole body is inside try/except: the call itself never raises
count_active_sessions(st, t, fail) ==
    IF fail THEN [raised |-> FALSE, value |-> 0]
    ELSE [raised |-> FALSE, value |-> Cardinality(ActiveSessionRows(st, t))]

count_active_interviews(st, t, fail) ==
    IF fail THEN [raised |-> FALSE, value |-> 0]
    ELSE [raised |-> FALSE, value |-> Cardinality(ActiveInterviewRows(st, t))]

\* str(n) of a non-negative int, one string per character
RECURSIVE Digits(_)
Digits(n) ==
    IF n < 10
    THEN <<CASE n = 0 -> "0" [] n = 1 -> "1" [] n = 2 -> "2" [] n = 3 -> "3"
             [] n = 4 -> "4" [] n = 5 -> "5" [] n = 6 -> "6" [] n = 7 -> "7"
             [] n = 8 -> "8" [] OTHER -> "9">>
    ELSE Digits(n \div 10) \o Digits(n % 10)

\* the three f-strings of can_start_interview; text without digits is one element
CapacityMessage(active_count, maxc) ==
    <<"Platform is at capacity (">> \o Digits(active_count) \o <<"/">> \o Digits(maxc)
        \o <<" active sessions). Please try again in a few minutes.">>

ReadyMessage(active_count, maxc) ==
    <<"Ready to start (">> \o Digits(active_count) \o <<"/">> \o Digits(maxc)
        \o <<" currently active)">>

DegradedMessage == <<"Unable to check capacity, proceeding anyway">>

can_start_interview_gt(st, t, maxc, fail) ==
    LET c == count_active_sessions(st, t, fail) IN
    IF c.raised THEN [ok |-> TRUE, msg |-> DegradedMessage]
    ELSE IF c.value > maxc
         THEN [ok |-> FALSE, msg |-> CapacityMessage(c.value, maxc)]
         ELSE [ok |-> TRUE, msg |-> ReadyMessage(c.value, maxc)]

can_start_interview_interviews(st, t, maxc, fail) ==
    LET c == count_active_interviews(st, t, fail) IN
    IF c.raised THEN [ok |-> TRUE, msg |-> DegradedMessage]
    ELSE IF c.value >= maxc
         THEN [ok |-> FALSE, msg |-> CapacityMessage(c.value, maxc)]
         ELSE [ok |-> TRUE, msg |-> ReadyMessage(c.value, maxc)]

\* the except branch is taken only if count_active_sessions itself raises
can_start_interview(st, t, maxc, fail) ==
    LET c == count_active_sessions(st, t, fail) IN
    IF c.raised THEN [ok |-> TRUE, msg |-> DegradedMessage]
    ELSE IF c.value >= maxc
         THEN [ok |-> FALSE, msg |-> CapacityMessage(c.value, maxc)]
         ELSE [ok |-> TRUE, msg |-> ReadyMessage(c.value, maxc)]

\* the row as a set: {} is None
get_session_info(st, sid, fail) ==
    IF fail THEN {}
    ELSE IF RowsOf(st, sid) # {} THEN {CHOOSE r \in RowsOf(st, sid) : TRUE} ELSE {}

StaleRows_lte(st, hours, t) ==
    {r \in st : r.status = "active" /\ r.last_seen <= t - hours * SecondsPerHour}

StaleRows(st, hours, t) ==
    {r \in st : r.status = "active" /\ r.last_seen < t - hours * SecondsPerHour}

cleanup_stale_sessions(st, hours, t, fail) ==
    IF fail THEN [ret |-> 0, store |-> st]
    ELSE [ret |-> Cardinality(StaleRows(st, hours, t)),
          store |-> UpdateWhere(st, StaleRows(st, hours, t), [status |-> "abandoned"])]

\* ------------------------------------------------------------------ state
\* ------------------------------------------------------- CapacityManager
AVG_LEARNING_MINUTES == 30
\* location arguments named by show_capacity_warning's docstring
CapLocations == {"home", "profile", "learning"}

estimate_wait_time_full == AVG_LEARNING_MINUTES

estimate_wait_time == AVG_LEARNING_MINUTES \div 2

check_api_limits == [available |-> TRUE, rpm_used |-> 0, rpd_used |-> 0, estimated_safe |-> TRUE]

Max(a, b) == IF a >= b THEN a ELSE b

\* avail: self.presence is a tracker (FALSE: get_presence_tracker returned None);
\* failI, failS: the store call of each of the two counts raises.
\* next_available (a rendering of now + wait_minutes) is left out.
get_capacity_status(st, t, avail, failI, failS) ==
    IF ~avail
    THEN [available |-> TRUE, reason |-> "Capacity tracking not available",
          can_proceed |-> TRUE]
    ELSE LET active_interviews == count_active_interviews(st, t, failI).value
             active_sessions == count_active_sessions(st, t, failS).value
             wait_minutes == IF active_interviews >= max_concurrent
                             THEN estimate_wait_time ELSE 0
             api_status == check_api_limits
         IN  [available |-> active_interviews < max_concurrent /\ api_status.available,
              active_interviews |-> active_interviews,
              max_concurrent |-> max_concurrent,
              total_active_sessions |-> active_sessions,
              slots_available |-> Max(0, max_concurrent - active_interviews),
              wait_minutes |-> wait_minutes,
              api_status |-> api_status,
              can_proceed |-> active_interviews < max_concurrent /\ api_status.available]

\* status[key] of a dict raises KeyError when the key is missing
HasKey(status, key) == key \in DOMAIN status

\* what a gate call did: raised an exception, or returned ret; stopped = st.stop()
Raised == [raised |-> TRUE, returned |-> FALSE, ret |-> FALSE, stopped |-> FALSE]
Returned(v) == [raised |-> FALSE, returned |-> TRUE, ret |-> v, stopped |-> FALSE]
Stopped == [raised |-> FALSE, returned |-> FALSE, ret |-> FALSE, stopped |-> TRUE]

show_capacity_warning(status, location) ==
    IF ~status.can_proceed
    THEN IF location = "learning" THEN Returned(FALSE)
         ELSE Returned(TRUE)
    ELSE IF ~HasKey(status, "slots_available") THEN Raised
         ELSE Returned(TRUE)

\* a variant that hands False back to the caller instead of stopping it
check_and_wait_nostop(status) ==
    IF HasKey(status, "can_proceed") /\ status.can_proceed THEN Returned(TRUE)
    ELSE Returned(FALSE)

check_and_wait(status) ==
    IF HasKey(status, "can_proceed") /\ status.can_proceed THEN Returned(TRUE)
    ELSE Stopped

CapCall(op, location, avail, failI, failS, res, status) ==
    [op |-> op, location |-> location, avail |-> avail, failI |-> failI,
     failS |-> failS, raised |-> res.raised, returned |-> res.returned,
     ret |-> res.ret, stopped |-> res.stopped, status |-> status]

NoCap == CapCall("none", "none", TRUE, FALSE, FALSE, Returned(FALSE), <<>>)

\* ------------------------------------------------------ main.py script runs
Clients == 1..NumClients
AppPages == {"home", "learning", "completion"}
\* the pages before the interview phase ends
EntryPages == {"home", "learning"}

\* st.session_state of a browser session that has not logged in; view is what
\* the browser shows: the login page, the capacity stop, or the current page
FreshState ==
    [authenticated |-> FALSE, language_code |-> FALSE, session_manager |-> NoSession,
     session_registered |-> FALSE, current_page |-> "home",
     completion_processed |-> FALSE, view |-> "login"]

\* get_session_manager(): module global first, then session_state, else a new
\* SessionManager whose create_new_session() makes an id never used before
get_session_manager(global, in_state, made) ==
    IF global # NoSession
    THEN [sid |-> global, global |-> global, in_state |-> in_state, made |-> made]
    ELSE IF in_state # NoSession
    THEN [sid |-> in_state, global |-> in_state, in_state |-> in_state, made |-> made]
    ELSE [sid |-> made + 1, global |-> made + 1, in_state |-> made + 1, made |-> made + 1]

\* a variant that runs admission whatever get_session_info returned
login_block_nolookup(st, t, sid, failL, failC, failM) ==
    LET res == can_start_interview(st, t, max_concurrent, failC)
    IN  IF ~res.ok
        THEN [lookup |-> "absent", evaluated |-> TRUE, can_start |-> FALSE,
              marked |-> FALSE, stopped |-> TRUE, registered |-> FALSE, store |-> st,
              ret |-> FALSE]
        ELSE [lookup |-> "absent", evaluated |-> TRUE, can_start |-> TRUE,
              marked |-> TRUE, stopped |-> FALSE, registered |-> TRUE,
              store |-> mark_session_started(st, sid, t, failM).store,
              ret |-> mark_session_started(st, sid, t, failM).ret]

\* the capacity check and registration of a non-dev credential with a tracker;
\* failL, failC, failM: the store call of the lookup, the count, the upsert raises
login_block(st, t, sid, failL, failC, failM) ==
    LET existing == get_session_info(st, sid, failL)
        res == can_start_interview(st, t, max_concurrent, failC)
    IN  IF existing # {}
        THEN [lookup |-> "found", evaluated |-> FALSE, can_start |-> FALSE,
              marked |-> FALSE, stopped |-> FALSE, registered |-> TRUE, store |-> st,
              ret |-> FALSE]
        ELSE IF ~res.ok
        THEN [lookup |-> "absent", evaluated |-> TRUE, can_start |-> FALSE,
              marked |-> FALSE, stopped |-> TRUE, registered |-> FALSE, store |-> st,
              ret |-> FALSE]
        ELSE [lookup |-> "absent", evaluated |-> TRUE, can_start |-> TRUE,
              marked |-> TRUE, stopped |-> FALSE, registered |-> TRUE,
              store |-> mark_session_started(st, sid, t, failM).store,
              ret |-> mark_session_started(st, sid, t, failM).ret]

\* "language_code" is in session_state: the block is not entered
block_skipped(st, registered) ==
    [lookup |-> "skipped", evaluated |-> FALSE, can_start |-> FALSE, marked |-> FALSE,
     stopped |-> FALSE, registered |-> registered, store |-> st, ret |-> FALSE]

NoRun ==
    [client |-> 0, kind |-> "none", sid |-> NoSession, first |-> FALSE,
     had_record |-> FALSE, failL |-> FALSE, lookup |-> "skipped", evaluated |-> FALSE,
     can_start |-> FALSE, marked |-> FALSE, stopped |-> FALSE, page |-> "none",
     completed |-> FALSE]

\* ------------------------------------------------- the heartbeat in a tab
\* the session the tab belongs to
TabSession == CHOOSE s \in Sessions : \A q \in Sessions : s <= q

\* a running heartbeat script: injected at start, beat() has been called fired times
Beacon(sid, page, t) == [sid |-> sid, page |-> page, start |-> t, fired |-> 0]

\* a variant whose interval is twice as long
NextBeat_slow(b) == b.start + b.fired * (beat_interval_seconds + beat_interval_seconds)

\* the instant of the next beat(): at once, then one interval after each call
NextBeat(b) == b.start + b.fired * beat_interval_seconds

\* a variant that leaves the scripts of earlier renders running
inject_heartbeat_additive(beacons, sid, page, t, keep) ==
    beacons \cup {Beacon(sid, page, t)}

\* inject_heartbeat(): components.html renders the script in place of the one of
\* the previous render, whose document is unloaded (beforeunload clears its
\* interval); keep: the frontend leaves an identical component as it is
inject_heartbeat(beacons, sid, page, t, keep) ==
    IF keep /\ \E b \in beacons : b.sid = sid /\ b.page = page
    THEN {b \in beacons : b.sid = sid /\ b.page = page}
    ELSE {Beacon(sid, page, t)}

\* a variant whose catch branch clears the interval
beat_stoponfail(st, b, t, fail) ==
    IF fail THEN [store |-> st, beacons |-> {}]
    ELSE [store |-> Upsert(st, BeatPayload(b.sid, b.page, t)),
          beacons |-> {[b EXCEPT !.fired = @ + 1]}]

\* beat(): one POST stamped with the time of the call; fail: fetch rejects or
\* the response is not ok; either way the interval keeps running
beat(st, b, t, fail) ==
    [store |-> IF fail THEN st ELSE Upsert(st, BeatPayload(b.sid, b.page, t)),
     beacons |-> {[b EXCEPT !.fired = @ + 1]}]

\* page: current_page of the latest inject_heartbeat call; misses: beat() calls
\* that failed since the last one that succeeded; renders: script runs so far
NoTab == [open |-> TRUE, registered |-> FALSE, page |-> "none", beacons |-> {},
          misses |-> 0, renders |-> 0]

Call(op, sid, fail, ok, n, msg, hours) ==
    [op |-> op, sid |-> sid, fail |-> fail, ok |-> ok, n |-> n, msg |-> msg, hours |-> hours]

Idle == Call("none", NoSession, FALSE, FALSE, 0, <<>>, 0)

Init ==
    /\ now = 0
    /\ ticks = 0
    /\ store = {}
    /\ last = Idle
    /\ started = {}
    /\ pc = [s \in Logins |-> "start"]
    /\ session_registered = [s \in Logins |-> FALSE]
    /\ raced = {}
    /\ cap = NoCap
    /\ halted = FALSE
    /\ inflight = {}
    /\ tab = NoTab
    /\ module_sm = NoSession
    /\ ids_made = 0
    /\ ss = [c \in Clients |-> FreshState]
    /\ hist = [c \in Clients |-> [sid |-> NoSession, before |-> NoSession, evals |-> 0,
                                   denied |-> FALSE]]
    /\ run = NoRun

loginVars == <<pc, session_registered, raced>>

\* time passes; nobody touches the store
Tick(d) ==
    /\ ticks < MaxTicks
    /\ now' = now + d
    /\ ticks' = ticks + 1
    /\ last' = Idle
    /\ UNCHANGED <<store, started, loginVars, halted, clientVars>>
    /\ cap' = NoCap

\* ------------------------------------------- tracker operations, any caller
MarkSessionStarted(s, fail) ==
    LET res == mark_session_started(store, s, now, fail) IN
    /\ store' = res.store
    /\ started' = IF res.ret THEN started \cup {s} ELSE started
    /\ last' = Call("mark_session_started", s, fail, res.ret, 0, <<>>, 0)
    /\ UNCHANGED <<now, ticks, loginVars, halted, clientVars>>
    /\ cap' = NoCap

MarkSessionCompleted(s, fail) ==
    LET res == mark_session_completed(store, s, now, fail) IN
    /\ store' = res.store
    /\ last' = Call("mark_session_completed", s, fail, res.ret, 0, <<>>, 0)
    /\ UNCHANGED <<now, ticks, started, loginVars, halted, clientVars>>
    /\ cap' = NoCap

\* beat(): one POST of the heartbeat payload; a failed fetch is swallowed
BeaconWrite(s, page, fail) ==
    /\ store' = IF fail THEN store ELSE Upsert(store, BeatPayload(s, page, now))
    /\ last' = Call("beat", s, fail, ~fail, 0, <<>>, 0)
    /\ UNCHANGED <<now, ticks, started, loginVars, halted, clientVars>>
    /\ cap' = NoCap

CountActiveSessions(fail) ==
    /\ last' = Call("count_active_sessions", NoSession, fail, TRUE,
                    count_active_sessions(store, now, fail).value, <<>>, 0)
    /\ UNCHANGED <<now, ticks, store, started, loginVars, halted, clientVars>>
    /\ cap' = NoCap

CountActiveInterviews(fail) ==
    /\ last' = Call("count_active_interviews", NoSession, fail, TRUE,
                    count_active_interviews(store, now, fail).value, <<>>, 0)
    /\ UNCHANGED <<now, ticks, store, started, loginVars, halted, clientVars>>
    /\ cap' = NoCap

CanStartInterview(fail) ==
    LET res == can_start_interview(store, now, max_concurrent, fail) IN
    /\ last' = Call("can_start_interview", NoSession, fail, res.ok, 0, res.msg, 0)
    /\ UNCHANGED <<now, ticks, store, started, loginVars, halted, clientVars>>
    /\ cap' = NoCap

GetSessionInfo(s, fail) ==
    /\ last' = Call("get_session_info", s, fail, get_session_info(store, s, fail) # {},
                    0, <<>>, 0)
    /\ UNCHANGED <<now, ticks, store, started, loginVars, halted, clientVars>>
    /\ cap' = NoCap

CleanupStaleSessions(hours, fail) ==
    LET res == cleanup_stale_sessions(store, hours, now, fail) IN
    /\ store' = res.store
    /\ last' = Call("cleanup_stale_sessions", NoSession, fail, TRUE, res.ret, <<>>, hours)
    /\ UNCHANGED <<now, ticks, started, loginVars, halted, clientVars>>
    /\ cap' = NoCap

Next ==
    \/ \E d \in TickSteps : Tick(d)
    \/ \E s \in Sessions, fail \in BOOLEAN : MarkSessionStarted(s, fail)
    \/ \E s \in Sessions, fail \in BOOLEAN : MarkSessionCompleted(s, fail)
    \/ \E s \in Sessions, page \in BeaconPages, fail \in BOOLEAN : BeaconWrite(s, page, fail)
    \/ \E fail \in BOOLEAN : CountActiveSessions(fail)
    \/ \E fail \in BOOLEAN : CountActiveInterviews(fail)
    \/ \E fail \in BOOLEAN : CanStartInterview(fail)
    \/ \E s \in Sessions, fail \in BOOLEAN : GetSessionInfo(s, fail)
    \/ \E hours \in HoursArgs, fail \in BOOLEAN : CleanupStaleSessions(hours, fail)

Spec == Init /\ [][Next]_vars

\* ------------------------------------------ login admission block, main.py
\* Each login runs under its own session id (its server process's
\* SessionManager); the block is three store calls, other logins interleave.
LoginLookup(s, fail) ==
    /\ pc[s] = "start"
    /\ IF get_session_info(store, s, fail) # {}
       THEN /\ pc' = [pc EXCEPT ![s] = "done"]
            /\ session_registered' = [session_registered EXCEPT ![s] = TRUE]
       ELSE /\ pc' = [pc EXCEPT ![s] = "new"]
            /\ UNCHANGED session_registered
    /\ UNCHANGED <<now, ticks, store, last, started, raced, cap, halted, clientVars>>

\* the outcome of the check: "admitted_blind" when the count could not be read
AdmissionOutcome(res, fail) ==
    IF ~res.ok THEN "blocked" ELSE IF fail THEN "admitted_blind" ELSE "admitted"

\* a check that also writes the caller's row
LoginAdmissionReserving(s, fail) ==
    LET res == can_start_interview(store, now, max_concurrent, fail) IN
    /\ pc[s] = "new"
    /\ pc' = [pc EXCEPT ![s] = AdmissionOutcome(res, fail)]
    /\ store' = IF res.ok THEN Upsert(store, StartedPayload(s, now)) ELSE store
    /\ UNCHANGED <<now, ticks, last, started, session_registered, raced, cap, halted, clientVars>>

\* can_start_interview(); st.stop() when it says no
LoginAdmission(s, fail) ==
    LET res == can_start_interview(store, now, max_concurrent, fail)
        pending == {t \in Logins \ {s} : pc[t] = "admitted"}
    IN
    /\ pc[s] = "new"
    /\ pc' = [pc EXCEPT ![s] = AdmissionOutcome(res, fail)]
    /\ raced' = IF res.ok /\ ~fail /\ pending # {}
                THEN raced \cup pending \cup {s} ELSE raced
    /\ UNCHANGED <<now, ticks, store, last, started, session_registered, cap, halted, clientVars>>

\* mark_session_started(); session_registered is set whatever it returned
LoginRegister(s, fail) ==
    LET res == mark_session_started(store, s, now, fail) IN
    /\ pc[s] \in {"admitted", "admitted_blind"}
    /\ store' = res.store
    /\ started' = IF res.ret THEN started \cup {s} ELSE started
    /\ pc' = [pc EXCEPT ![s] = "done"]
    /\ session_registered' = [session_registered EXCEPT ![s] = TRUE]
    /\ UNCHANGED <<now, ticks, last, raced, cap, halted, clientVars>>

\* the injected heartbeat of a registered login
Heartbeat(s, page, fail) ==
    /\ pc[s] = "done"
    /\ session_registered[s]
    /\ store' = IF fail THEN store ELSE Upsert(store, BeatPayload(s, page, now))
    /\ UNCHANGED <<now, ticks, last, started, loginVars, cap, halted, clientVars>>

LoginNext ==
    \/ \E d \in TickSteps : Tick(d)
    \/ \E s \in Logins, fail \in BOOLEAN : LoginLookup(s, fail)
    \/ \E s \in Logins, fail \in BOOLEAN : LoginAdmission(s, fail)
    \/ \E s \in Logins, fail \in BOOLEAN : LoginRegister(s, fail)
    \/ \E s \in Logins, page \in BeaconPages, fail \in BOOLEAN : Heartbeat(s, page, fail)

LoginSpec == Init /\ [][LoginNext]_vars

\* ------------------------------------------- pages calling the CapacityManager
\* Sessions heartbeat and lapse while pages ask the CapacityManager.
capFrame == <<now, ticks, store, started, loginVars, clientVars>>

GetCapacityStatus(avail, failI, failS) ==
    /\ cap' = CapCall("get_capacity_status", "none", avail, failI, failS, Returned(TRUE),
                      get_capacity_status(store, now, avail, failI, failS))
    /\ last' = Idle
    /\ UNCHANGED <<capFrame, halted>>

ShowCapacityWarning(location, avail, failI, failS) ==
    /\ LET status == get_capacity_status(store, now, avail, failI, failS)
       IN  cap' = CapCall("show_capacity_warning", location, avail, failI, failS,
                          show_capacity_warning(status, location), status)
    /\ last' = Idle
    /\ UNCHANGED <<capFrame, halted>>

\* a script run reaches check_and_wait
CheckAndWait(avail, failI, failS) ==
    /\ ~halted
    /\ LET status == get_capacity_status(store, now, avail, failI, failS)
           res == check_and_wait(status)
       IN  /\ cap' = CapCall("check_and_wait", "none", avail, failI, failS, res, status)
           /\ halted' = res.stopped
    /\ last' = Idle
    /\ UNCHANGED capFrame

\* the "Check again" button of a stopped run: st.rerun, the script runs again
CheckAgain(avail, failI, failS) ==
    /\ halted
    /\ LET status == get_capacity_status(store, now, avail, failI, failS)
           res == check_and_wait(status)
       IN  /\ cap' = CapCall("check_again", "none", avail, failI, failS, res, status)
           /\ halted' = res.stopped
    /\ last' = Idle
    /\ UNCHANGED capFrame

\* main.py, current_page == "learning": the page body is rendered once the
\* profile is complete; no CapacityManager call is made
LearningPageEntry(avail, profile_completed) ==
    /\ cap' = CapCall("learning_page", "learning", avail, FALSE, FALSE,
                      Returned(profile_completed), <<>>)
    /\ last' = Idle
    /\ UNCHANGED <<capFrame, halted>>

CapacityNext ==
    \/ \E d \in TickSteps : Tick(d)
    \/ \E s \in Logins, page \in BeaconPages : BeaconWrite(s, page, FALSE)
    \/ \E avail, failI, failS \in BOOLEAN : GetCapacityStatus(avail, failI, failS)
    \/ \E location \in CapLocations, avail, failI, failS \in BOOLEAN :
          ShowCapacityWarning(location, avail, failI, failS)
    \/ \E avail, failI, failS \in BOOLEAN : CheckAndWait(avail, failI, failS)
    \/ \E avail, failI, failS \in BOOLEAN : CheckAgain(avail, failI, failS)
    \/ \E avail, profile_completed \in BOOLEAN : LearningPageEntry(avail, profile_completed)

CapacitySpec == Init /\ [][CapacityNext]_vars

\* --------------------------------------------------- heartbeats on the network
\* beat() stamps the payload with the browser's clock and then awaits fetch();
\* the POST reaches the store some time later, or never.
BeaconSend(s, page) ==
    /\ Cardinality(inflight) < MaxInFlight
    /\ inflight' = inflight \cup {BeatPayload(s, page, now)}
    /\ last' = Idle
    /\ cap' = NoCap
    /\ UNCHANGED <<now, ticks, store, started, loginVars, halted, tab, sessionVars>>

BeaconDeliver(p, fail) ==
    /\ p \in inflight
    /\ inflight' = inflight \ {p}
    /\ store' = IF fail THEN store ELSE Upsert(store, p)
    /\ last' = Call("beat", p.session_id, fail, ~fail, 0, <<>>, 0)
    /\ cap' = NoCap
    /\ UNCHANGED <<now, ticks, started, loginVars, halted, tab, sessionVars>>

BeaconNext ==
    \/ \E d \in TickSteps : Tick(d)
    \/ \E s \in Sessions, fail \in BOOLEAN : MarkSessionStarted(s, fail)
    \/ \E s \in Sessions, page \in BeaconPages : BeaconSend(s, page)
    \/ \E p \in inflight, fail \in BOOLEAN : BeaconDeliver(p, fail)

BeaconSpec == Init /\ [][BeaconNext]_vars

\* ------------------------------------------------ clients driving main.py
appFrame == <<now, ticks, loginVars, halted, inflight, tab>>

\* one run of main.py for client c whose session_state is s0 when the run
\* starts: get_session_manager, the login block, the completion page
RunScript(c, s0, kind, failL, failC, failM, failD) ==
    LET g == get_session_manager(module_sm, s0.session_manager, ids_made)
        first == ~s0.language_code
        b == IF first THEN login_block(store, now, g.sid, failL, failC, failM)
             ELSE block_skipped(store, s0.session_registered)
        completing == /\ ~b.stopped
                      /\ s0.current_page = "completion"
                      /\ ~s0.completion_processed
        st2 == IF completing
               THEN mark_session_completed(b.store, g.sid, now, failD).store
               ELSE b.store
    IN  /\ g.made <= MaxIds
        /\ module_sm' = g.global
        /\ ids_made' = g.made
        /\ store' = st2
        /\ started' = IF b.marked /\ b.ret THEN started \cup {g.sid} ELSE started
        /\ ss' = [ss EXCEPT ![c] =
                    [s0 EXCEPT !.session_manager = g.in_state,
                               !.language_code = TRUE,
                               !.session_registered = b.registered,
                               !.completion_processed = @ \/ completing,
                               !.view = IF b.stopped THEN "blocked" ELSE "page"]]
        /\ hist' = [hist EXCEPT ![c] =
                      [@ EXCEPT !.sid = g.sid,
                                !.evals = @ + (IF b.evaluated THEN 1 ELSE 0),
                                !.denied = IF b.evaluated THEN ~b.can_start ELSE @]]
        /\ run' = [client |-> c, kind |-> kind, sid |-> g.sid, first |-> first,
                   had_record |-> RowsOf(store, g.sid) # {}, failL |-> failL,
                   lookup |-> b.lookup, evaluated |-> b.evaluated,
                   can_start |-> b.can_start, marked |-> b.marked,
                   stopped |-> b.stopped,
                   page |-> IF b.stopped THEN "none" ELSE s0.current_page,
                   completed |-> completing]
        /\ last' = Idle
        /\ cap' = NoCap
        /\ UNCHANGED appFrame

\* the login form accepts the credential and reruns the script
Login(c, failL, failC, failM, failD) ==
    /\ ~ss[c].authenticated
    /\ RunScript(c, [ss[c] EXCEPT !.authenticated = TRUE], "login",
                 failL, failC, failM, failD)

\* any widget interaction or the browser's rerun command
Rerun(c, failL, failC, failM, failD) ==
    /\ ss[c].authenticated
    /\ RunScript(c, ss[c], "rerun", failL, failC, failM, failD)

\* navigate_to(page) from a button of the rendered page
Navigate(c, page, failL, failC, failM, failD) ==
    /\ ss[c].authenticated /\ ss[c].view = "page"
    /\ page # ss[c].current_page
    /\ RunScript(c, [ss[c] EXCEPT !.current_page = page], "navigate",
                 failL, failC, failM, failD)

\* "Start New Interview Session" on the completion page
StartNewInterview(c, failL, failC, failM, failD) ==
    /\ ss[c].authenticated /\ ss[c].view = "page"
    /\ ss[c].current_page = "completion"
    /\ RunScript(c, [ss[c] EXCEPT !.completion_processed = FALSE,
                                  !.current_page = "home"], "start_new",
                 failL, failC, failM, failD)

appRest == <<now, ticks, store, started, loginVars, halted, inflight, tab,
                module_sm, ids_made>>

\* AuthenticationManager.logout(): the keys it deletes, the module global stays
Logout(c) ==
    /\ ss[c].authenticated
    /\ ss' = [ss EXCEPT ![c] = FreshState]
    /\ hist' = [hist EXCEPT ![c] = [sid |-> NoSession,
                                    before |-> @.sid,
                                    evals |-> 0,
                                    denied |-> FALSE]]
    /\ run' = NoRun
    /\ last' = Idle
    /\ cap' = NoCap
    /\ UNCHANGED appRest

\* the browser reloads the page: a new Streamlit session with empty session_state
Reload(c) ==
    /\ ss[c] # FreshState
    /\ ss' = [ss EXCEPT ![c] = FreshState]
    /\ hist' = [hist EXCEPT ![c] = [@ EXCEPT !.sid = NoSession, !.evals = 0,
                                              !.denied = FALSE]]
    /\ run' = NoRun
    /\ last' = Idle
    /\ cap' = NoCap
    /\ UNCHANGED appRest

\* the server process restarts: module globals and all sessions are gone,
\* the presence table stays
Restart ==
    /\ module_sm # NoSession
    /\ ids_made < MaxIds
    /\ module_sm' = NoSession
    /\ ss' = [c \in Clients |-> FreshState]
    /\ hist' = [c \in Clients |-> [hist[c] EXCEPT !.sid = NoSession, !.evals = 0,
                                                   !.denied = FALSE]]
    /\ run' = NoRun
    /\ last' = Idle
    /\ cap' = NoCap
    /\ UNCHANGED <<now, ticks, store, started, loginVars, halted, inflight, tab, ids_made>>

\* a heartbeat of the beacon injected by the latest run of client c
AppBeat(c, fail) ==
    /\ ss[c].authenticated /\ ss[c].view = "page" /\ ss[c].session_registered
    /\ store' = IF fail THEN store
                ELSE Upsert(store, BeatPayload(hist[c].sid, ss[c].current_page, now))
    /\ run' = NoRun
    /\ last' = Idle
    /\ cap' = NoCap
    /\ UNCHANGED <<now, ticks, started, loginVars, halted, inflight, tab, module_sm,
                   ids_made, ss, hist>>

\* logins, reruns and server restarts up to the learning page
AppNext ==
    \/ \E c \in Clients, failL, failC, failM \in BOOLEAN :
          Login(c, failL, failC, failM, FALSE)
    \/ \E c \in Clients, failL, failC, failM \in BOOLEAN :
          Rerun(c, failL, failC, failM, FALSE)
    \/ \E c \in Clients, page \in EntryPages, failL, failC, failM \in BOOLEAN :
          Navigate(c, page, failL, failC, failM, FALSE)
    \/ \E c \in Clients : Logout(c)
    \/ \E c \in Clients : Reload(c)
    \/ Restart
    \/ \E c \in Clients, fail \in BOOLEAN : AppBeat(c, fail)

AppSpec == Init /\ [][AppNext]_vars

\* one server process over time: every page up to completion and back
FlowNext ==
    \/ \E d \in TickSteps : Tick(d)
    \/ \E c \in Clients, failL, failC, failM, failD \in BOOLEAN :
          Login(c, failL, failC, failM, failD)
    \/ \E c \in Clients, failL, failC, failM, failD \in BOOLEAN :
          Rerun(c, failL, failC, failM, failD)
    \/ \E c \in Clients, page \in AppPages, failL, failC, failM, failD \in BOOLEAN :
          Navigate(c, page, failL, failC, failM, failD)
    \/ \E c \in Clients, failL, failC, failM, failD \in BOOLEAN :
          StartNewInterview(c, failL, failC, failM, failD)
    \/ \E c \in Clients : Logout(c)
    \/ \E c \in Clients : Reload(c)
    \/ \E c \in Clients, fail \in BOOLEAN : AppBeat(c, fail)

FlowSpec == Init /\ [][FlowNext]_vars

\* ------------------------------------------------ the heartbeat over time
\* Seconds pass one at a time; a beat() that is due happens before the next
\* second.  The clock starts at the client's first script run.
tabFrame == <<ticks, loginVars, halted, inflight, sessionVars>>

\* a script run of the tab's client: registration on the first run, then the
\* heartbeat injection for the page being rendered
TabRender(page, failM, keep) ==
    /\ tab.open
    /\ tab.renders < MaxRenders
    /\ LET reg == mark_session_started(store, TabSession, now, failM)
       IN  /\ store' = IF tab.registered THEN store ELSE reg.store
           /\ started' = IF ~tab.registered /\ reg.ret
                         THEN started \cup {TabSession} ELSE started
    /\ tab' = [tab EXCEPT !.registered = TRUE,
                          !.renders = @ + 1,
                          !.page = page,
                          !.beacons = inject_heartbeat(tab.beacons, TabSession,
                                                       page, now, keep)]
    /\ last' = Idle
    /\ cap' = NoCap
    /\ UNCHANGED <<now, tabFrame>>

BeatFire(b, fail) ==
    /\ b \in tab.beacons
    /\ NextBeat(b) = now
    /\ LET res == beat(store, b, now, fail)
       IN  /\ store' = res.store
           /\ tab' = [tab EXCEPT !.beacons = (@ \ {b}) \cup res.beacons,
                                 !.misses = IF fail THEN @ + 1 ELSE 0]
    /\ last' = Call("beat", b.sid, fail, ~fail, 0, <<>>, 0)
    /\ cap' = NoCap
    /\ UNCHANGED <<now, started, tabFrame>>

\* a variant that leaves the scripts running
CloseTab_running ==
    /\ tab.open
    /\ tab' = [tab EXCEPT !.open = FALSE]
    /\ last' = Idle
    /\ cap' = NoCap
    /\ UNCHANGED <<now, store, started, tabFrame>>

\* the tab is closed: its documents are unloaded and their intervals cleared
CloseTab ==
    /\ tab.open
    /\ tab' = [tab EXCEPT !.open = FALSE, !.beacons = {}]
    /\ last' = Idle
    /\ cap' = NoCap
    /\ UNCHANGED <<now, store, started, tabFrame>>

Elapse ==
    /\ tab.registered
    /\ now < MaxSeconds
    /\ \A b \in tab.beacons : NextBeat(b) > now
    /\ now' = now + 1
    /\ last' = Idle
    /\ cap' = NoCap
    /\ UNCHANGED <<store, started, tab, tabFrame>>

TabNext ==
    \/ \E page \in BeaconPages, failM, keep \in BOOLEAN : TabRender(page, failM, keep)
    \/ \E b \in tab.beacons, fail \in BOOLEAN : BeatFire(b, fail)
    \/ CloseTab
    \/ Elapse

TabSpec == Init /\ [][TabNext]_vars

\* ---------------------------------------- two clients of one server process
\* one more browser than Clients, all served by the process that holds the
\* module-level SessionManager
Pair == 1..(NumClients + 1)

PairInit ==
    /\ now = 0
    /\ ticks = 0
    /\ store = {}
    /\ last = Idle
    /\ started = {}
    /\ pc = [s \in Logins |-> "start"]
    /\ session_registered = [s \in Logins |-> FALSE]
    /\ raced = {}
    /\ cap = NoCap
    /\ halted = FALSE
    /\ inflight = {}
    /\ tab = NoTab
    /\ module_sm = NoSession
    /\ ids_made = 0
    /\ ss = [c \in Pair |-> FreshState]
    /\ hist = [c \in Pair |-> [sid |-> NoSession, before |-> NoSession, evals |-> 0,
                               denied |-> FALSE]]
    /\ run = NoRun

PairNext ==
    \/ \E c \in Pair, failL, failC, failM \in BOOLEAN :
          Login(c, failL, failC, failM, FALSE)
    \/ \E c \in Pair, failL, failC, failM \in BOOLEAN :
          Rerun(c, failL, failC, failM, FALSE)
    \/ \E c \in Pair, page \in EntryPages, failL, failC, failM \in BOOLEAN :
          Navigate(c, page, failL, failC, failM, FALSE)
    \/ \E c \in Pair : Logout(c)
    \/ \E c \in Pair, fail \in BOOLEAN : AppBeat(c, fail)

PairSpec == PairInit /\ [][PairNext]_vars

\* ----------------------------------------------------------------- claims
ActiveRows == {r \in store : r.status = "active"}

\* the liveness predicate of the data model: active and seen within the window
Live(r) == r.status = "active" /\ now - r.last_seen <= online_window_seconds

LiveRows == {r \in store : Live(r)}

LapsedRows == {r \in store : r.status = "active" /\ now - r.last_seen > online_window_seconds}

Contains(msg, pat) ==
    \E i \in 0..(Len(msg) - Len(pat)) : \A k \in 1..Len(pat) : msg[i + k] = pat[k]

IsCall(op) == last.op = op
Answered(op) == last.op = op /\ ~last.fail

\* C1: can_start_interview returns true exactly when count_active_sessions()
\* is below max_concurrent; when the store answers, that is the number of
\* live active rows, whatever count_active_interviews is.
C1_AdmissionOnSessionCount ==
    IsCall("can_start_interview") =>
        /\ last.ok = (count_active_sessions(store, now, last.fail).value < max_concurrent)
        /\ ~last.fail => (last.ok = (Cardinality(LiveRows) < max_concurrent))

\* C1 witness: denied on the session count while fewer interviews than the limit run
C1_Witness ==
    /\ Answered("can_start_interview")
    /\ ~last.ok
    /\ Cardinality({r \in LiveRows : r.is_in_interview}) < max_concurrent

\* C2: when the store call raises during can_start_interview, the call
\* returns true together with the degraded-mode notice.
C2_FailOpenDegradedNotice ==
    (IsCall("can_start_interview") /\ last.fail) =>
        (last.ok /\ last.msg = DegradedMessage)

\* C3: in every step a row's status changes only from active to completed or
\* from active to abandoned; completed and abandoned rows keep their status.
C3_StatusTerminal ==
    [][\A r \in store : \A q \in store' :
          (r.session_id = q.session_id /\ r.status # q.status) =>
              (r.status = "active" /\ q.status \in {"completed", "abandoned"})]_vars

\* C4: the store holds at most one row per session id, and exactly one for
\* every session id on which mark_session_started has returned True.
C4_OneRowPerSession ==
    \A s \in Sessions \cup Logins :
        /\ Cardinality(RowsOf(store, s)) <= 1
        /\ s \in started => Cardinality(RowsOf(store, s)) = 1

\* C4 witness: mark_session_started has just succeeded again on a row that had
\* already been completed once, and a heartbeat-made row sits next to it
C4_Witness ==
    /\ IsCall("mark_session_started") /\ last.ok
    /\ \E r \in RowsOf(store, last.sid) : r.completed_at # NoTime
    /\ \E r \in store : r.started_at = NoTime

\* C5: count_active_sessions returns the number of live rows (status active,
\* now - last_seen <= 60, the boundary included) and count_active_interviews
\* the number of those with is_in_interview; older rows are in neither count.
C5_CountsAreLiveRows ==
    /\ Answered("count_active_sessions") => last.n = Cardinality(LiveRows)
    /\ Answered("count_active_interviews") =>
           last.n = Cardinality({r \in LiveRows : r.is_in_interview})

\* C5 witness: a row exactly online_window_seconds old is counted
C5_Witness ==
    /\ Answered("count_active_sessions")
    /\ last.n >= 1
    /\ \E r \in ActiveRows : now - r.last_seen = online_window_seconds

\* C6: the admission check reserves nothing: the step in which a login is
\* admitted leaves the store as it was, so a second login checking before the
\* first has registered sees the same count (the witness is the overbooking).
C6_AdmissionReservesNothing ==
    [][\A s \in Logins : (pc[s] = "new" /\ pc'[s] \in {"admitted", "admitted_blind"}) => store' = store]_vars

\* C6 witness: more than max_concurrent logins, each admitted on a count the
\* store returned while another admitted login was unregistered, have
\* registered and are live
C6_Witness ==
    Cardinality({s \in raced : /\ pc[s] = "done"
                               /\ RowsOf(store, s) # {}
                               /\ RowsOf(store, s) \subseteq LiveRows}) > max_concurrent

\* C7: with max_concurrent = 2 and exactly two live sessions, both registered,
\* active and seen within the last 30 s, can_start_interview returns false
\* with a message containing "2/2".
C7_TwoOfTwo ==
    LET recent == {r \in ActiveRows : r.started_at # NoTime /\ now - r.last_seen <= 30} IN
    (/\ Answered("can_start_interview")
     /\ max_concurrent = 2
     /\ Cardinality(recent) = 2
     /\ LiveRows = recent) =>
        (~last.ok /\ Contains(last.msg, <<"2", "/", "2">>))

\* C7 witness: both sessions registered and then heartbeated, the check follows
C7_Witness ==
    /\ Answered("can_start_interview")
    /\ Cardinality({r \in ActiveRows : /\ r.started_at # NoTime
                                        /\ r.current_page # "login"
                                        /\ now - r.last_seen <= 30}) = 2
    /\ Cardinality(LiveRows) = 2

\* C8: time passing changes no row, yet an active row whose last_seen is more
\* than online_window_seconds old is not counted by count_active_sessions, and
\* can_start_interview returns true whenever the remaining active rows are
\* fewer than max_concurrent.
C8_LapseFreesSlot ==
    [][/\ now' # now => store' = store
       /\ (Answered("count_active_sessions"))' =>
              (last.n + Cardinality(LapsedRows) <= Cardinality(ActiveRows))'
       /\ (Answered("can_start_interview")
            /\ Cardinality(ActiveRows \ LapsedRows) < max_concurrent)' => last'.ok]_vars

\* C8 witness: a registered row never refreshed since has lapsed, its status is
\* still active, and the check admits although max_concurrent rows are active
C8_Witness ==
    /\ Answered("can_start_interview") /\ last.ok
    /\ \E r \in LapsedRows : r.last_seen = r.started_at /\ r.current_page = "login"
    /\ Cardinality(ActiveRows) >= max_concurrent

\* C9: mark_session_completed on a session id without a row returns false and
\* leaves the store unchanged; on an existing row it sets status = completed
\* and completed_at = now and returns true.
C9_CompleteMissingReturnsFalse ==
    [][IsCall("mark_session_completed")' =>
          IF RowsOf(store, last'.sid) = {}
          THEN ~last'.ok /\ store' = store
          ELSE ~last'.fail =>
                  /\ last'.ok
                  /\ \A r \in RowsOf(store', last'.sid) :
                        r.status = "completed" /\ r.completed_at = now']_vars

\* C10: cleanup_stale_sessions(hours) sets status = abandoned on exactly the
\* active rows with last_seen strictly older than now - hours, returns their
\* number, and changes no other row and no other field.
C10_CleanupFrame ==
    [][Answered("cleanup_stale_sessions")' =>
          LET stale == {r \in store : /\ r.status = "active"
                                      /\ r.last_seen < now - last'.hours * SecondsPerHour}
          IN /\ store' = (store \ stale) \cup {[r EXCEPT !.status = "abandoned"] : r \in stale}
             /\ last'.n = Cardinality(stale)]_vars

\* C10 witness: one row was abandoned by a cleanup with hours > 0 while a newer
\* active row and a completed row were left alone
C10_Witness ==
    /\ Answered("cleanup_stale_sessions")
    /\ last.n = 1
    /\ last.hours > 0
    /\ \E r \in store : r.status = "abandoned" /\ now - r.last_seen > last.hours * SecondsPerHour
    /\ \E r \in store : r.status # "abandoned"

\* C11: a tracker call whose store call raises returns its default and leaves
\* the store unchanged: both counts 0, get_session_info absent, cleanup 0,
\* mark_session_started and mark_session_completed false.
C11_UnreachableStoreDefaults ==
    [][last'.fail =>
          /\ store' = store
          /\ last'.op \in {"count_active_sessions", "count_active_interviews",
                           "cleanup_stale_sessions"} => last'.n = 0
          /\ last'.op \in {"get_session_info", "mark_session_started",
                           "mark_session_completed"} => ~last'.ok]_vars

\* C11 witness: mark_session_started has just failed for a session whose row
\* is live and whose stale neighbour a cleanup would have abandoned
C11_Witness ==
    /\ IsCall("mark_session_started") /\ last.fail /\ ~last.ok
    /\ RowsOf(store, last.sid) # {}
    /\ RowsOf(store, last.sid) \subseteq LiveRows
    /\ LapsedRows # {}

\* ---------------------------------------------------- CapacityManager claims
GateOps == {"show_capacity_warning", "check_and_wait", "check_again"}

\* can_proceed as a CapacityManager with a tracker and an answering store sees it
CanProceedNow == get_capacity_status(store, now, TRUE, FALSE, FALSE).can_proceed

\* C12: without a presence tracker no CapacityManager operation raises:
\* get_capacity_status reports can_proceed, and show_capacity_warning (at every
\* location) and check_and_wait return True.
C12_NoRaiseWithoutTracker ==
    (cap.op # "none" /\ ~cap.avail) =>
        /\ ~cap.raised
        /\ cap.op = "get_capacity_status" => cap.status.can_proceed
        /\ cap.op \in GateOps => cap.returned /\ cap.ret

\* C13: at the location that opens the interview phase the gate is enforced:
\* show_capacity_warning returns can_proceed there, and the page body is
\* rendered only while can_proceed holds.
C13_InterviewGateEnforced ==
    /\ (cap.op = "show_capacity_warning" /\ cap.location = "learning" /\ cap.avail) =>
           cap.returned /\ cap.ret = cap.status.can_proceed
    /\ (cap.op = "learning_page" /\ cap.avail /\ cap.ret) => CanProceedNow

\* C14: show_capacity_warning("home") returns True in every capacity state.
C14_HomeAdvisory ==
    (cap.op = "show_capacity_warning" /\ cap.location = "home") =>
        cap.returned /\ cap.ret

\* C15: check_and_wait returns True exactly when the status it has just read
\* reports can_proceed; otherwise it returns nothing and stops the caller's
\* run, and a stopped caller gets on only through a retry that reads the
\* status again and finds can_proceed.
C15_CheckAndWaitHalts ==
    [][/\ cap'.op \in {"check_and_wait", "check_again"} =>
              /\ cap'.status = get_capacity_status(store', now', cap'.avail,
                                                   cap'.failI, cap'.failS)
              /\ cap'.returned <=> cap'.status.can_proceed
              /\ cap'.returned => cap'.ret
              /\ ~cap'.returned => cap'.stopped /\ halted' /\ ~cap'.raised
       /\ (halted /\ ~halted') =>
              /\ cap'.op = "check_again" /\ cap'.returned
              /\ get_capacity_status(store, now, cap'.avail, cap'.failI,
                                     cap'.failS).can_proceed]_vars

\* C15 witness: a caller stopped at capacity has retried after the interviews
\* lapsed and was let through by a tracker whose store answered
C15_Witness ==
    /\ cap.op = "check_again" /\ cap.returned /\ cap.ret
    /\ cap.avail /\ ~cap.failI
    /\ Cardinality({r \in store : r.is_in_interview}) >= max_concurrent

\* C16: with a tracker, get_capacity_status reports the two counts as the
\* tracker returns them, slots_available = max(0, max_concurrent - interviews),
\* wait_minutes = 15 at or over capacity and 0 below it, can_proceed =
\* (interviews < max_concurrent), and a healthy API status.
C16_CapacityStatusFields ==
    (cap.op = "get_capacity_status" /\ cap.avail) =>
        LET S == cap.status
            interviews == IF cap.failI THEN 0
                          ELSE Cardinality({r \in LiveRows : r.is_in_interview})
            sessions == IF cap.failS THEN 0 ELSE Cardinality(LiveRows)
        IN  /\ S.active_interviews = interviews
            /\ S.active_interviews = count_active_interviews(store, now, cap.failI).value
            /\ S.total_active_sessions = sessions
            /\ S.total_active_sessions = count_active_sessions(store, now, cap.failS).value
            /\ S.slots_available =
                   IF max_concurrent - interviews > 0 THEN max_concurrent - interviews ELSE 0
            /\ S.wait_minutes = IF interviews >= max_concurrent THEN 15 ELSE 0
            /\ S.can_proceed = (interviews < max_concurrent)
            /\ S.api_status.available

\* C16 witness: a status read with more interviews live than the limit
C16_Witness ==
    /\ cap.op = "get_capacity_status" /\ cap.avail /\ ~cap.failI /\ ~cap.failS
    /\ cap.status.active_interviews > max_concurrent
    /\ cap.status.slots_available = 0
    /\ cap.status.wait_minutes = 15
    /\ ~cap.status.can_proceed

\* C17: no write lowers the last_seen of a record: every row of the store
\* after a step is at least as recent as the row of the same session before it.
C17_LastSeenMonotone ==
    [][\A r \in store, q \in store' :
           r.session_id = q.session_id => q.last_seen >= r.last_seen]_vars

\* C18: started_at and completed_at are written once: a step never changes a
\* started_at or a completed_at that a row already has.
C18_TimestampsSetOnce ==
    [][\A r \in store, q \in store' :
           r.session_id = q.session_id =>
               /\ r.started_at # NoTime => q.started_at = r.started_at
               /\ r.completed_at # NoTime => q.completed_at = r.completed_at]_vars

\* C19: the session id a client runs under after a logout differs from the id
\* it ran under before that logout.
C19_FreshIdAfterLogout ==
    \A c \in Clients :
        (hist[c].sid # NoSession /\ hist[c].before # NoSession) =>
            hist[c].sid # hist[c].before

TabRows == {r \in store : r.session_id = TabSession}

\* C21: an injected heartbeat writes at once and then every 20 s while the tab
\* is open: no second passes with a write due, a write that the store accepts
\* stamps the row with the time of the write, and two writes of one script are
\* 20 s apart; once the tab is closed no script is left and the store is no
\* longer written, so the row is not counted once more than online_window
\* seconds have passed since its last write.
C21_BeaconSchedule ==
    [][ /\ \A b \in tab'.beacons :
               /\ b.fired = 0 => NextBeat(b) = now'
               /\ now' <= NextBeat(b) /\ NextBeat(b) <= now' + beat_interval_seconds
        /\ (last'.op = "beat" /\ ~last'.fail /\ tab' # tab) =>
               \E r \in store' : r.session_id = last'.sid /\ r.last_seen = now'
        /\ ~tab.open => (store' = store /\ tab'.beacons = {})
        /\ ~tab'.open =>
               \A r \in store' :
                   (r.session_id = TabSession /\ now' > r.last_seen + online_window_seconds)
                       => r \notin ActiveSessionRows(store', now')
      ]_vars

\* C21 witness: the tab was closed after a periodic write; 61 s after that
\* write the row is no longer counted
C21_Witness ==
    /\ ~tab.open
    /\ \E r \in TabRows :
           /\ r.last_seen >= beat_interval_seconds
           /\ now = r.last_seen + online_window_seconds + 1
           /\ r.status = "active"
           /\ r \notin ActiveSessionRows(store, now)

C23_FailedWriteIsSilent ==
    [][ (last'.op = "beat" /\ last'.fail /\ tab' # tab) =>
            /\ store' = store
            /\ now' = now
            /\ sessionVars' = sessionVars /\ halted' = halted
            /\ tab'.open = tab.open /\ tab'.page = tab.page
            /\ Cardinality(tab'.beacons) = Cardinality(tab.beacons)
            /\ tab'.beacons # {}
            /\ \A b \in tab'.beacons \ tab.beacons :
                   NextBeat(b) = now + beat_interval_seconds
      ]_vars

\* C23 witness: a write has failed, 20 s have passed and the script's next
\* write is due
C23_Witness ==
    /\ tab.open
    /\ tab.misses = 1
    /\ last.op = "none"
    /\ \E b \in tab.beacons : b.fired >= 2 /\ NextBeat(b) = now
    /\ \E r \in TabRows : r.last_seen = now - beat_interval_seconds - beat_interval_seconds

WaitRendering(w) == <<"~">> \o Digits(w)

\* C24: a denial by can_start_interview (the store answered and the count is
\* at or over max_concurrent) returns a message that shows a wait estimate of
\* some w > 0 minutes.
C24_DenialShowsWait ==
    (Answered("can_start_interview") /\ ~last.ok) =>
        \E w \in 1..AVG_LEARNING_MINUTES : Contains(last.msg, WaitRendering(w))

\* C25: beacon writes happen only for a session that registration put in the
\* store, so every record in the store is one that a mark_session_started call
\* returning True created.
C25_BeaconOnlyAfterRegistration ==
    \A r \in store : r.session_id \in started /\ r.started_at # NoTime

\* C26: every record has is_in_interview = TRUE exactly when its current_page
\* is one of learning, study, interview.
C26_PhaseFlagMatchesPage ==
    \A r \in store : r.is_in_interview <=> (r.current_page \in InterviewPages)

\* C26 witness: one record was put on the learning page by a beacon write and
\* another is on login, just written by a registration
C26_Witness ==
    /\ \E r \in store : r.current_page = "learning" /\ r.is_in_interview
    /\ \E r \in store : /\ r.current_page = "login" /\ ~r.is_in_interview
                        /\ r.started_at # NoTime
    /\ Answered("mark_session_started")

\* C27: a client whose login was denied by can_start_interview is not shown
\* the learning page under that login unless a later evaluation admitted it.
C27_DeniedNeverLearns ==
    \A c \in Clients :
        hist[c].denied => ~(ss[c].view = "page" /\ ss[c].current_page = "learning")

\* C28: two clients logged in at the same time on one server process run
\* under different session ids.
C28_DistinctSessionIds ==
    \A c1, c2 \in DOMAIN ss :
        (/\ c1 # c2
         /\ ss[c1].authenticated /\ hist[c1].sid # NoSession
         /\ ss[c2].authenticated /\ hist[c2].sid # NoSession)
            => hist[c1].sid # hist[c2].sid

\* C29: a session that is on the learning page and whose heartbeat has just
\* written that page to the store is among the rows count_active_interviews
\* counts, whatever happened to the session before.
C29_LearningSessionCounted ==
    \A c \in DOMAIN ss :
        (ss[c].authenticated /\ ss[c].view = "page" /\ ss[c].current_page = "learning")
            => \A r \in RowsOf(store, hist[c].sid) :
                   (r.current_page = "learning" /\ r.last_seen = now)
                       => r \in ActiveInterviewRows(store, now)

====
